---- MODULE Spec2Model ----
(***************************************************************************)
(* A model of the scheduling engine of src/app.py: the TaskScheduler       *)
(* object (its task dictionary) and the Flask handlers that call it.       *)
(*                                                                         *)
(* Representation.                                                         *)
(*  - Points in time are minutes on an integer axis.  A Python datetime is *)
(*    [aware, t]; the ISO-8601 text a task stores or a caller sends is     *)
(*    [kind, t] with kind "naive" (no UTC offset), "aware" (with offset)   *)
(*    or "bad" (text that datetime.fromisoformat rejects).                 *)
(*  - A task is a function from field names to values, like the Python     *)
(*    dict; the store is the dict self.tasks in insertion order, a         *)
(*    sequence of [key, task] entries.                                     *)
(*  - priority_score is held in hundredths (round(x, 2) * 100).            *)
(*  - datetime.now() is the variable now; one handler reads one value of   *)
(*    it (the microseconds between two reads in a handler are not          *)
(*    modelled).  priority and estimated_duration are integers.            *)
(*  - assigned is the set of ids create_task has stored a task under; it is *)
(*    history, the program keeps no such set.                              *)
(*  - last is the HTTP response of the last request served, together with  *)
(*    the request that produced it.                                        *)
(*  - Under SpecThreads, the threaded server of app.run, last maps each    *)
(*    request thread to the create it is serving: its position in          *)
(*    create_task and its local variables.  A thread can be switched out   *)
(*    between any two steps; the scheduler object has no lock.             *)
(***************************************************************************)
EXTENDS Integers, Sequences, FiniteSets, TLC

VARIABLES tasks, now, served, assigned, last

vars == <<tasks, now, served, assigned, last>>

\* ------------------------------------------------------------------ bounds
MaxTasks == 2          \* most entries the store holds
MaxTicks == 1          \* most advances of the clock
MaxServed == 3         \* most requests served
MaxCalls == 2          \* most creates begun by the request threads

Day == 1440            \* minutes in a day
Hour == 60             \* minutes in an hour

\* ------------------------------------------------- datetime and ISO text
Naive(t) == [kind |-> "naive", t |-> t]
Aware(t) == [kind |-> "aware", t |-> t]
BadTime == [kind |-> "bad", t |-> 0]

\* datetime.isoformat(): the text of a datetime
isoformat(dt) == [kind |-> IF dt.aware THEN "aware" ELSE "naive", t |-> dt.t]

\* datetime.fromisoformat(): ValueError on malformed text
ParseOk(s) == s.kind # "bad"
fromisoformat(s) == [aware |-> s.kind = "aware", t |-> s.t]

\* datetime.now(): always offset-naive
Now(n) == [aware |-> FALSE, t |-> n]

\* dt + timedelta(minutes = m)
PlusMinutes(dt, m) == [aware |-> dt.aware, t |-> dt.t + m]

\* a < b, a - b on datetimes: TypeError when exactly one has an offset
Comparable(a, b) == a.aware = b.aware

\* dict.get(key, default)
Get(d, k, default) == IF k \in DOMAIN d THEN d[k] ELSE default

\* ------------------------------------------------------------ the store
Keys(store) == {store[i].key : i \in 1..Len(store)}

IndexOf(store, k) == CHOOSE i \in 1..Len(store) : store[i].key = k

Lookup(store, k) == store[IndexOf(store, k)].task

\* self.tasks[k] = t: a present key keeps its position, a new one is appended
Put(store, k, t) ==
    IF k \in Keys(store)
    THEN [store EXCEPT ![IndexOf(store, k)] = [key |-> k, task |-> t]]
    ELSE Append(store, [key |-> k, task |-> t])

\* a delete that reads the entry and leaves it in the dict
PopKeeps(store, k) == store

\* self.tasks.pop(k)
Pop(store, k) ==
    LET i == IndexOf(store, k)
    IN  SubSeq(store, 1, i - 1) \o SubSeq(store, i + 1, Len(store))

\* ------------------------------------------------------ priority scoring
\* round(n / d, 2 decimals already scaled): nearest integer, ties to even
RoundHalfEven(n, d) ==
    LET q == n \div d
        r == n % d
    IN  IF 2 * r < d THEN q
        ELSE IF 2 * r > d THEN q + 1
        ELSE IF q % 2 = 0 THEN q ELSE q + 1

Max(a, b) == IF a >= b THEN a ELSE b
Min(a, b) == IF a <= b THEN a ELSE b

\* the score in hundredths, from seventy-seconds of a hundredth:
\*   priority * 2                         = 14400 * priority    / 7200
\*   max(0, 10 - minutes / 60 / 24)       = max(0, 72000 - 5 m) / 7200
\*   min(estimated_duration / 120, 2)     = min(60 d, 14400)    / 7200
ScoreHundredths(priority, minutesLeft, duration) ==
    RoundHalfEven(14400 * priority
                    + Max(0, 72000 - 5 * minutesLeft)
                    + Min(60 * duration, 14400), 72)

\* calculate_priority_score(task): [ok, score]; not ok is a raised exception
calculate_priority_score(task, n) ==
    LET text == Get(task, "deadline", isoformat(Now(n)))
        deadline == fromisoformat(text)
    IN  IF ~ParseOk(text) \/ ~Comparable(deadline, Now(n))
        THEN [ok |-> FALSE, score |-> 0]
        ELSE [ok |-> TRUE,
              score |-> ScoreHundredths(Get(task, "priority", 5),
                                        deadline.t - n,
                                        Get(task, "estimated_duration", 60))]

\* ---------------------------------------------------- conflict detection
StartOf(task, n) == fromisoformat(Get(task, "scheduled_time", isoformat(Now(n))))
EndOf(task, n) == PlusMinutes(StartOf(task, n), Get(task, "estimated_duration", 60))

Skipped(task) == Get(task, "status", "None") = "completed"

Overlaps(new_task, task, n) ==
    /\ StartOf(new_task, n).t < EndOf(task, n).t
    /\ EndOf(new_task, n).t > StartOf(task, n).t

Descriptor(entry) ==
    [task_id |-> entry.key,
     title |-> Get(entry.task, "title", "None"),
     time |-> Get(entry.task, "scheduled_time", BadTime)]

RECURSIVE ConflictsFrom(_, _, _, _)
ConflictsFrom(store, new_task, n, i) ==
    IF i > Len(store) THEN <<>>
    ELSE IF ~Skipped(store[i].task) /\ Overlaps(new_task, store[i].task, n)
         THEN <<Descriptor(store[i])>> \o ConflictsFrom(store, new_task, n, i + 1)
         ELSE ConflictsFrom(store, new_task, n, i + 1)

\* the loop raises at the first task it cannot parse or compare
DetectRaises(store, new_task, n) ==
    \/ ~ParseOk(Get(new_task, "scheduled_time", isoformat(Now(n))))
    \/ \E i \in 1..Len(store) :
          /\ ~Skipped(store[i].task)
          /\ \/ ~ParseOk(Get(store[i].task, "scheduled_time", isoformat(Now(n))))
             \/ ~Comparable(StartOf(new_task, n), StartOf(store[i].task, n))

\* detect_conflicts(new_task): [ok, conflicts]
detect_conflicts(store, new_task, n) ==
    IF DetectRaises(store, new_task, n)
    THEN [ok |-> FALSE, conflicts |-> <<>>]
    ELSE [ok |-> TRUE, conflicts |-> ConflictsFrom(store, new_task, n, 1)]

\* -------------------------------------------------------- slot suggestion
\* test_task = task.copy(); test_task['scheduled_time'] = current_time.isoformat()
TestTask(task, current) == ("scheduled_time" :> isoformat(Now(current))) @@ task

\* a loop that writes the candidate time into the task it was passed
RECURSIVE SuggestLoopInPlace(_, _, _, _, _)
SuggestLoopInPlace(store, task, n, current, deadline) ==
    IF ~(current < deadline.t)
    THEN [ok |-> TRUE,
          suggested_time |-> isoformat(Now(current)),
          reason |-> "Best available slot near deadline",
          confidence |-> 60,
          checks |-> 0,
          task |-> task]
    ELSE LET test_task == TestTask(task, current)
             found == detect_conflicts(store, test_task, n)
         IN  IF ~found.ok
             THEN [ok |-> FALSE, suggested_time |-> BadTime, reason |-> "",
                   confidence |-> 0, checks |-> 1, task |-> test_task]
             ELSE IF found.conflicts = <<>>
             THEN [ok |-> TRUE,
                   suggested_time |-> isoformat(Now(current)),
                   reason |-> "No conflicts detected",
                   confidence |-> 95,
                   checks |-> 1,
                   task |-> test_task]
             ELSE LET rest == SuggestLoopInPlace(store, test_task, n,
                                                 current + Hour, deadline)
                  IN  [rest EXCEPT !.checks = @ + 1]

\* a loop that tries the deadline itself too
RECURSIVE SuggestLoopInclusive(_, _, _, _, _)
SuggestLoopInclusive(store, task, n, current, deadline) ==
    IF ~(current <= deadline.t)
    THEN [ok |-> TRUE,
          suggested_time |-> isoformat(Now(current)),
          reason |-> "Best available slot near deadline",
          confidence |-> 60,
          checks |-> 0,
          task |-> task]
    ELSE LET test_task == TestTask(task, current)
             found == detect_conflicts(store, test_task, n)
         IN  IF ~found.ok
             THEN [ok |-> FALSE, suggested_time |-> BadTime, reason |-> "",
                   confidence |-> 0, checks |-> 1, task |-> task]
             ELSE IF found.conflicts = <<>>
             THEN [ok |-> TRUE,
                   suggested_time |-> isoformat(Now(current)),
                   reason |-> "No conflicts detected",
                   confidence |-> 95,
                   checks |-> 1,
                   task |-> task]
             ELSE LET rest == SuggestLoopInclusive(store, task, n,
                                                   current + Hour, deadline)
                  IN  [rest EXCEPT !.checks = @ + 1]

\* the while loop from current (minutes), deadline a naive datetime: the
\* answer, the number of conflict checks made, and the task that was passed
\* as the loop leaves it
RECURSIVE SuggestLoop(_, _, _, _, _)
SuggestLoop(store, task, n, current, deadline) ==
    IF ~(current < deadline.t)
    THEN [ok |-> TRUE,
          suggested_time |-> isoformat(Now(current)),
          reason |-> "Best available slot near deadline",
          confidence |-> 60,
          checks |-> 0,
          task |-> task]
    ELSE LET test_task == TestTask(task, current)
             found == detect_conflicts(store, test_task, n)
         IN  IF ~found.ok
             THEN [ok |-> FALSE, suggested_time |-> BadTime, reason |-> "",
                   confidence |-> 0, checks |-> 1, task |-> task]
             ELSE IF found.conflicts = <<>>
             THEN [ok |-> TRUE,
                   suggested_time |-> isoformat(Now(current)),
                   reason |-> "No conflicts detected",
                   confidence |-> 95,
                   checks |-> 1,
                   task |-> task]
             ELSE LET rest == SuggestLoop(store, task, n, current + Hour, deadline)
                  IN  [rest EXCEPT !.checks = @ + 1]

\* a suggestion that starts the scan one hour from now
suggest_optimal_time_late(store, task, n) ==
    LET text == Get(task, "deadline", isoformat(PlusMinutes(Now(n), 7 * Day)))
        deadline == fromisoformat(text)
    IN  IF ~ParseOk(text) \/ ~Comparable(Now(n), deadline)
        THEN [ok |-> FALSE, suggested_time |-> BadTime, reason |-> "",
              confidence |-> 0, checks |-> 0, task |-> task]
        ELSE SuggestLoop(store, task, n, n + Hour, deadline)

\* suggest_optimal_time(task): [ok, suggested_time, reason, confidence], the
\* checks made and the task passed; not ok is a raised exception
suggest_optimal_time(store, task, n) ==
    LET text == Get(task, "deadline", isoformat(PlusMinutes(Now(n), 7 * Day)))
        deadline == fromisoformat(text)
    IN  IF ~ParseOk(text) \/ ~Comparable(Now(n), deadline)
        THEN [ok |-> FALSE, suggested_time |-> BadTime, reason |-> "",
              confidence |-> 0, checks |-> 0, task |-> task]
        ELSE SuggestLoop(store, task, n, n, deadline)

Suggestion(s) ==
    [suggested_time |-> s.suggested_time, reason |-> s.reason,
     confidence |-> s.confidence]

\* ------------------------------------------------------------ the inputs
\* uuid4()[:8]: eight hexadecimal digits of a random number
IdPool == <<"1f0c9a3e", "7b44d2c1", "c05e88ad">>

\* the ids of the pool never drawn so far are interchangeable: the next draw is
\* an id drawn before (stored still, or deleted since) or the first new one
NewIds(used) == {i \in 1..Len(IdPool) : IdPool[i] \notin used}

Draws(used) ==
    used \cup (IF NewIds(used) = {} THEN {}
               ELSE {IdPool[CHOOSE i \in NewIds(used) : \A j \in NewIds(used) : i <= j]})

\* ids a client may address: those drawn so far and one that never is
ClientIds(used) == used \cup {"ffffffff"}

Empty == <<>>

CreateRequests ==
    {Empty,
     "priority" :> 0 - 1,
     ("priority" :> 9) @@ ("estimated_duration" :> 300),
     "scheduled_time" :> Aware(0),
     "deadline" :> BadTime,
     "status" :> "completed"}

UpdateRequests ==
    {Empty,
     "status" :> "completed",
     "status" :> "archived",
     "id" :> "ffffffff",
     "priority_score" :> 0,
     "scheduled_time" :> BadTime,
     "deadline" :> BadTime}

SuggestRequests ==
    {Empty,
     "deadline" :> Naive(60),
     "deadline" :> Naive(90),
     "deadline" :> BadTime}

\* the query string of GET /tasks
ListArgs ==
    {"status" :> "completed",
     "priority_min" :> 0,
     ("status" :> "pending") @@ ("priority_min" :> 9)}

\* ------------------------------------------------------------- the state
Init ==
    /\ tasks = <<>>
    /\ now = 0
    /\ served = 0
    /\ assigned = {}
    /\ last = [op |-> "none", code |-> 0]

\* wall-clock time passes between requests
Tick ==
    /\ now < MaxTicks * Hour
    /\ now' = now + Hour
    /\ UNCHANGED <<tasks, served, assigned, last>>

\* ----------------------------------------------------------- create_task
NewTask(task_id, task_data, n) ==
    [id |-> task_id,
     title |-> Get(task_data, "title", "Untitled Task"),
     description |-> Get(task_data, "description", ""),
     priority |-> Get(task_data, "priority", 5),
     estimated_duration |-> Get(task_data, "estimated_duration", 60),
     deadline |-> Get(task_data, "deadline", isoformat(PlusMinutes(Now(n), 7 * Day))),
     scheduled_time |-> Get(task_data, "scheduled_time", isoformat(Now(n))),
     status |-> "pending",
     created_at |-> isoformat(Now(n)),
     tags |-> Get(task_data, "tags", <<>>)]

\* create_task(task_data) with the id uuid4 draws: [raised, store, result];
\* raised is an exception leaving the method, store the dict it leaves behind.
\* The dict stored is the object passed to suggest_optimal_time.
create_task(store, task_id, task_data, n) ==
    LET task0 == NewTask(task_id, task_data, n)
        scored == calculate_priority_score(task0, n)
        task == ("priority_score" :> scored.score) @@ task0
        found == detect_conflicts(store, task, n)
        stored == Put(store, task_id, task)
        hint == suggest_optimal_time(stored, task, n)
        result == [task |-> task, conflicts |-> found.conflicts,
                   has_conflicts |-> Len(found.conflicts) > 0]
    IN  IF ~scored.ok \/ ~found.ok
        THEN [raised |-> TRUE, store |-> store, result |-> Empty]
        ELSE IF found.conflicts = <<>>
        THEN [raised |-> FALSE, store |-> stored, result |-> result]
        ELSE IF ~hint.ok
        THEN [raised |-> TRUE, store |-> Put(stored, task_id, hint.task),
              result |-> Empty]
        ELSE [raised |-> FALSE, store |-> Put(stored, task_id, hint.task),
              result |-> ("suggestion" :> Suggestion(hint)) @@
                         [result EXCEPT !.task = hint.task]]

\* POST /tasks: 201 with the result, 500 when create_task raises
CreateTask(task_id, task_data) ==
    LET done == create_task(tasks, task_id, task_data, now)
    IN  /\ served < MaxServed
        /\ task_id \in Keys(tasks) \/ Len(tasks) < MaxTasks
        /\ served' = served + 1
        /\ UNCHANGED now
        /\ tasks' = done.store
        /\ assigned' = IF done.store = tasks THEN assigned
                       ELSE assigned \cup {task_id}
        /\ last' = IF done.raised
                   THEN [op |-> "create", code |-> 500, req |-> task_data]
                   ELSE [op |-> "create", code |-> 201, req |-> task_data,
                         body |-> done.result]

\* ----------------------------------------------------------- update_task
\* an update that replaces the task: the fields left out fall back to defaults
MergeReplaces(task, updates) == updates @@ NewTask(task.id, Empty, 0)

\* task.update(updates): the supplied keys overwrite, the others stay
Merge(task, updates) == updates @@ task

NotFound == [error |-> "Task not found"]

\* an update that lets a supplied priority_score stand
UpdateStoredKeepsScore(store, task_id, old, updates, n) ==
    LET merged == Merge(old, updates)
        scored == calculate_priority_score(merged, n)
        task == ("updated_at" :> isoformat(Now(n))) @@ merged
    IN  IF ~scored.ok
        THEN [raised |-> TRUE, store |-> Put(store, task_id, merged),
              result |-> Empty]
        ELSE [raised |-> FALSE, store |-> Put(store, task_id, task),
              result |-> [task |-> task,
                          message |-> "Task updated successfully"]]

\* update_task below its guard: merge in place, then score and stamp
UpdateStored(store, task_id, old, updates, n) ==
    LET merged == Merge(old, updates)
        scored == calculate_priority_score(merged, n)
        task == ("priority_score" :> scored.score) @@
                ("updated_at" :> isoformat(Now(n))) @@ merged
    IN  IF ~scored.ok
        THEN [raised |-> TRUE, store |-> Put(store, task_id, merged),
              result |-> Empty]
        ELSE [raised |-> FALSE, store |-> Put(store, task_id, task),
              result |-> [task |-> task,
                          message |-> "Task updated successfully"]]

\* an update that creates the task it does not find
update_task_upserts(store, task_id, updates, n) ==
    IF task_id \notin Keys(store)
    THEN UpdateStored(store, task_id, NewTask(task_id, Empty, n), updates, n)
    ELSE UpdateStored(store, task_id, Lookup(store, task_id), updates, n)

\* update_task(task_id, updates): [raised, store, result]
update_task(store, task_id, updates, n) ==
    IF task_id \notin Keys(store)
    THEN [raised |-> FALSE, store |-> store, result |-> NotFound]
    ELSE UpdateStored(store, task_id, Lookup(store, task_id), updates, n)

\* the status code a route gives a result of the engine
StatusOf(done) ==
    IF done.raised THEN 500
    ELSE IF "error" \in DOMAIN done.result THEN 404
    ELSE 200

\* PUT /tasks/<id>
UpdateTask(task_id, updates) ==
    LET done == update_task(tasks, task_id, updates, now)
    IN  /\ served < MaxServed
        /\ served' = served + 1
        /\ UNCHANGED <<now, assigned>>
        /\ tasks' = done.store
        /\ last' = IF StatusOf(done) = 404
                   THEN [op |-> "update", code |-> 404, id |-> task_id,
                         body |-> done.result]
                   ELSE [op |-> "update", code |-> StatusOf(done), id |-> task_id,
                         req |-> updates, body |-> done.result]

\* ----------------------------------------------------------- delete_task
\* delete_task(task_id): [raised, store, result]
delete_task(store, task_id) ==
    IF task_id \notin Keys(store)
    THEN [raised |-> FALSE, store |-> store, result |-> NotFound]
    ELSE [raised |-> FALSE, store |-> Pop(store, task_id),
          result |-> [message |-> "Task deleted successfully",
                      task |-> Lookup(store, task_id)]]

\* DELETE /tasks/<id>
DeleteTask(task_id) ==
    LET done == delete_task(tasks, task_id)
    IN  /\ served < MaxServed
        /\ served' = served + 1
        /\ UNCHANGED <<now, assigned>>
        /\ tasks' = done.store
        /\ last' = [op |-> "delete", code |-> StatusOf(done), id |-> task_id,
                    body |-> done.result]

\* the route get_task: [raised, store, result]
get_task(store, task_id) ==
    IF task_id \notin Keys(store)
    THEN [raised |-> FALSE, store |-> store, result |-> NotFound]
    ELSE [raised |-> FALSE, store |-> store,
          result |-> [task |-> Lookup(store, task_id)]]

\* GET /tasks/<id>
GetTask(task_id) ==
    LET done == get_task(tasks, task_id)
    IN  /\ served < MaxServed
        /\ served' = served + 1
        /\ UNCHANGED <<tasks, now, assigned>>
        /\ last' = [op |-> "get", code |-> StatusOf(done), id |-> task_id,
                    body |-> done.result]

\* ---------------------------------------------------------- get_schedule
\* list.sort(key = priority_score, reverse = True): stable, descending
RECURSIVE InsertByScore(_, _)
InsertByScore(sorted, t) ==
    IF sorted = <<>> THEN <<t>>
    ELSE IF Head(sorted).priority_score >= t.priority_score
         THEN <<Head(sorted)>> \o InsertByScore(Tail(sorted), t)
         ELSE <<t>> \o sorted

\* a sort whose result is thrown away
SortSkipped(list) == list

RECURSIVE SortByScore(_)
SortByScore(list) ==
    IF list = <<>> THEN <<>>
    ELSE InsertByScore(SortByScore(SubSeq(list, 1, Len(list) - 1)), list[Len(list)])

\* a filter value is <<>> for None and <<v>> for the value v
\* Python truth of filters.get(...): None, '' and 0 are false
TruthyText(x) == x # <<>> /\ x[1] # ""
TruthyNumber(x) == x # <<>> /\ x[1] # 0

Values(store) == [i \in 1..Len(store) |-> store[i].task]

FilterStatus(list, filters) ==
    IF TruthyText(filters.status)
    THEN SelectSeq(list, LAMBDA t : t.status = filters.status[1])
    ELSE list

FilterPriority(list, filters) ==
    IF TruthyNumber(filters.priority_min)
    THEN SelectSeq(list, LAMBDA t : t.priority >= filters.priority_min[1])
    ELSE list

\* the summary of a task list
Summary(list) ==
    [high_priority |-> Len(SelectSeq(list, LAMBDA t : t.priority >= 8)),
     medium_priority |-> Len(SelectSeq(list, LAMBDA t : 4 <= t.priority /\ t.priority < 8)),
     low_priority |-> Len(SelectSeq(list, LAMBDA t : t.priority < 4)),
     pending |-> Len(SelectSeq(list, LAMBDA t : t.status = "pending")),
     in_progress |-> Len(SelectSeq(list, LAMBDA t : t.status = "in_progress")),
     completed |-> Len(SelectSeq(list, LAMBDA t : t.status = "completed"))]

\* a listing whose summary counts every stored task
get_schedule_counts_all(store, filters) ==
    LET all == Values(store)
        kept == IF filters = <<>> THEN all
                ELSE FilterPriority(FilterStatus(all, filters[1]), filters[1])
        tasks_list == SortByScore(kept)
    IN  [total_tasks |-> Len(tasks_list),
         tasks |-> tasks_list,
         summary |-> Summary(all)]

\* get_schedule(filters); filters is <<>> for None, else <<[status, priority_min]>>
get_schedule(store, filters) ==
    LET all == Values(store)
        kept == IF filters = <<>> THEN all
                ELSE FilterPriority(FilterStatus(all, filters[1]), filters[1])
        tasks_list == SortByScore(kept)
    IN  [total_tasks |-> Len(tasks_list),
         tasks |-> tasks_list,
         summary |-> Summary(tasks_list)]

\* the filters the route list_tasks builds from the query string
RouteFilters(args) ==
    [status |-> IF "status" \in DOMAIN args THEN <<args.status>> ELSE <<>>,
     priority_min |-> <<Get(args, "priority_min", 0)>>]

\* GET /tasks
ListTasks(args) ==
    /\ served < MaxServed
    /\ served' = served + 1
    /\ UNCHANGED <<tasks, now, assigned>>
    /\ last' = [op |-> "list", code |-> 200, args |-> args,
                body |-> get_schedule(tasks, <<RouteFilters(args)>>)]

\* GET /schedule
GetSchedule ==
    /\ served < MaxServed
    /\ served' = served + 1
    /\ UNCHANGED <<tasks, now, assigned>>
    /\ last' = [op |-> "schedule", code |-> 200,
                body |-> get_schedule(tasks, <<>>)]

\* POST /suggest
SuggestTime(data) ==
    LET hint == suggest_optimal_time(tasks, data, now)
    IN  /\ served < MaxServed
        /\ served' = served + 1
        /\ UNCHANGED <<tasks, now, assigned>>
        /\ IF hint.ok
           THEN last' = [op |-> "suggest", code |-> 200, req |-> data,
                         at |-> now, body |-> Suggestion(hint),
                         checks |-> hint.checks, task |-> hint.task]
           ELSE last' = [op |-> "suggest", code |-> 500, req |-> data,
                         at |-> now, checks |-> hint.checks,
                         task |-> hint.task]

\* ---------------------------------------------------------- the machine
Next ==
    \/ Tick
    \/ \E task_id \in Draws(assigned), task_data \in CreateRequests :
          CreateTask(task_id, task_data)
    \/ \E task_id \in ClientIds(assigned), updates \in UpdateRequests :
          UpdateTask(task_id, updates)
    \/ \E task_id \in ClientIds(assigned) : DeleteTask(task_id)
    \/ \E task_id \in ClientIds(assigned) : GetTask(task_id)
    \/ \E args \in ListArgs : ListTasks(args)
    \/ GetSchedule
    \/ \E data \in SuggestRequests : SuggestTime(data)

Spec == Init /\ [][Next]_vars

\* ------------------------------------------------- concurrent creates
\* the request threads of the server
Threads == {1, 2}

ThreadRequests ==
    {Empty, "scheduled_time" :> Naive(30), "scheduled_time" :> Naive(120)}

Idle == [pc |-> "idle"]

\* a thread whose handler has raised: the route answers 500
Raised(id, task) == [pc |-> "done", code |-> 500, id |-> id, task |-> task]

\* the ids drawn so far, stored or still in a thread's hands
Drawn == assigned \cup {last[t].id : t \in {u \in Threads : last[u].pc # "idle"}}

InitThreads ==
    /\ tasks = <<>>
    /\ now = 0
    /\ served = 0
    /\ assigned = {}
    /\ last = [t \in Threads |-> Idle]

\* POST /tasks arrives on thread t: the id, the task dict and its score
ThreadBegin(t, task_id, task_data) ==
    LET task0 == NewTask(task_id, task_data, now)
        scored == calculate_priority_score(task0, now)
        task == ("priority_score" :> scored.score) @@ task0
    IN  /\ last[t].pc \in {"idle", "done"}
        /\ served < MaxCalls
        /\ served' = served + 1
        /\ last' = [last EXCEPT ![t] =
                      IF ~scored.ok THEN Raised(task_id, task0)
                      ELSE [pc |-> "scored", id |-> task_id, task |-> task]]
        /\ UNCHANGED <<tasks, now, assigned>>

\* detect_conflicts up to the loop: new_start, new_end, and the iterator
\* over self.tasks.items(), which remembers the size of the dict
ThreadIterate(t) ==
    /\ last[t].pc = "scored"
    /\ last' = [last EXCEPT ![t] =
                  IF ~ParseOk(Get(@.task, "scheduled_time", isoformat(Now(now))))
                  THEN Raised(@.id, @.task)
                  ELSE [pc |-> "scan", id |-> @.id, task |-> @.task,
                        used |-> Len(tasks), pos |-> 0, conflicts |-> <<>>]]
    /\ UNCHANGED <<tasks, now, served, assigned>>

\* one turn of the loop: RuntimeError when the dict has changed size, the
\* end of the loop, or one stored task compared with the new one
ThreadScanNext(t) ==
    LET me == last[t]
        entry == tasks[me.pos + 1]
        bad == /\ ~Skipped(entry.task)
               /\ \/ ~ParseOk(Get(entry.task, "scheduled_time", isoformat(Now(now))))
                  \/ ~Comparable(StartOf(me.task, now), StartOf(entry.task, now))
        hit == ~Skipped(entry.task) /\ Overlaps(me.task, entry.task, now)
    IN  /\ me.pc = "scan"
        /\ last' = [last EXCEPT ![t] =
                      IF Len(tasks) # me.used THEN Raised(me.id, me.task)
                      ELSE IF me.pos = Len(tasks)
                      THEN [pc |-> "checked", id |-> me.id, task |-> me.task,
                            conflicts |-> me.conflicts]
                      ELSE IF bad THEN Raised(me.id, me.task)
                      ELSE [me EXCEPT !.pos = @ + 1,
                                      !.conflicts = IF hit
                                                    THEN Append(@, Descriptor(entry))
                                                    ELSE @]]
        /\ UNCHANGED <<tasks, now, served, assigned>>

\* self.tasks[task_id] = task
ThreadInsert(t) ==
    /\ last[t].pc = "checked"
    /\ tasks' = Put(tasks, last[t].id, last[t].task)
    /\ assigned' = assigned \cup {last[t].id}
    /\ last' = [last EXCEPT ![t].pc = "stored"]
    /\ UNCHANGED <<now, served>>

\* the result, with a suggestion when there are conflicts, and the response;
\* the suggestion's scans of the dict are taken in one step
ThreadRespond(t) ==
    LET me == last[t]
        hint == suggest_optimal_time(tasks, me.task, now)
        result == [task |-> me.task, conflicts |-> me.conflicts,
                   has_conflicts |-> Len(me.conflicts) > 0]
    IN  /\ me.pc = "stored"
        /\ last' = [last EXCEPT ![t] =
                      IF me.conflicts = <<>>
                      THEN [pc |-> "done", code |-> 201, id |-> me.id,
                            task |-> me.task, body |-> result]
                      ELSE IF ~hint.ok THEN Raised(me.id, me.task)
                      ELSE [pc |-> "done", code |-> 201, id |-> me.id,
                            task |-> me.task,
                            body |-> ("suggestion" :> Suggestion(hint)) @@ result]]
        /\ UNCHANGED <<tasks, now, served, assigned>>

NextThreads ==
    \/ \E t \in Threads, task_id \in Draws(Drawn), task_data \in ThreadRequests :
          ThreadBegin(t, task_id, task_data)
    \/ \E t \in Threads : ThreadIterate(t)
    \/ \E t \in Threads : ThreadScanNext(t)
    \/ \E t \in Threads : ThreadInsert(t)
    \/ \E t \in Threads : ThreadRespond(t)

SpecThreads == InitThreads /\ [][NextThreads]_vars

\* =============================================================== claims
\* a step that serves one request of the given kind
Request(op) == served' = served + 1 /\ last'.op = op

Entries(store) == {store[i] : i \in 1..Len(store)}

\* the interval the specification gives a task
IntervalStart(task) == task.scheduled_time.t
IntervalEnd(task) == task.scheduled_time.t + task.estimated_duration

IntervalsOverlap(new, other) ==
    /\ IntervalStart(new) < IntervalEnd(other)
    /\ IntervalEnd(new) > IntervalStart(other)

\* the keys of the stored tasks the specification says conflict with new
ConflictingKeys(store, new) ==
    {e.key : e \in {x \in Entries(store) :
                       /\ x.task.status # "completed"
                       /\ IntervalsOverlap(new, x.task)}}

\* how often a value occurs in a list
Occurrences(list, v) == Cardinality({i \in 1..Len(list) : list[i] = v})

ListedIds(conflicts) == {conflicts[i].task_id : i \in 1..Len(conflicts)}

\* C1: the conflicts a create returns are exactly the tasks stored before it
\* that are not completed and overlap the new task, has_conflicts says
\* whether there are any, and the new task's id is not among them.
C1_CreateConflicts ==
    [][Request("create") /\ last'.code = 201 =>
          /\ ListedIds(last'.body.conflicts)
                = ConflictingKeys(tasks, last'.body.task)
          /\ Len(last'.body.conflicts)
                = Cardinality(ConflictingKeys(tasks, last'.body.task))
          /\ last'.body.has_conflicts = (last'.body.conflicts # <<>>)
          /\ last'.body.task.id \notin ListedIds(last'.body.conflicts)]_vars

\* C2: a create stores its task under an id no earlier create has used: the
\* store keeps every entry it had and gains one.
C2_FreshId ==
    [][Request("create") /\ tasks' # tasks =>
          /\ Len(tasks') = Len(tasks) + 1
          /\ SubSeq(tasks', 1, Len(tasks)) = tasks
          /\ tasks'[Len(tasks')].key \notin assigned]_vars

\* C3: every create answers 201 with {task, conflicts, has_conflicts} and
\* stores the task at the scheduled_time that was asked for.
C3_CreateSucceeds ==
    [][Request("create") =>
          /\ last'.code = 201
          /\ {"task", "conflicts", "has_conflicts"} \subseteq DOMAIN last'.body
          /\ last'.body.task.id \in Keys(tasks')
          /\ Lookup(tasks', last'.body.task.id) = last'.body.task
          /\ last'.body.task.scheduled_time
                = Get(last'.req, "scheduled_time", isoformat(Now(now)))]_vars

\* C4: the task a create stores has the status the caller supplied, and is
\* pending when none was supplied.
C4_CreateStatus ==
    [][Request("create") /\ last'.code = 201 =>
          Lookup(tasks', last'.body.task.id).status
             = Get(last'.req, "status", "pending")]_vars

\* C5: every stored task's status is pending, in_progress or completed.
C5_StatusDomain ==
    \A e \in Entries(tasks) :
        e.task.status \in {"pending", "in_progress", "completed"}

\* C6: every stored task's id field is the key it is stored under.
C6_IdIsKey ==
    \A e \in Entries(tasks) : e.task.id = e.key

Recomputed == {"priority_score", "updated_at"}

\* C7: an update of a stored id keeps the store's keys and order, leaves every
\* other task as it was, and in the addressed task changes or adds nothing
\* but the supplied fields, priority_score and updated_at.
C7_UpdateFrame ==
    [][Request("update") /\ last'.id \in Keys(tasks) =>
          LET old == Lookup(tasks, last'.id)
              new == Lookup(tasks', last'.id)
              free == DOMAIN last'.req \cup Recomputed
          IN  /\ Len(tasks') = Len(tasks)
              /\ \A i \in 1..Len(tasks) :
                    /\ tasks'[i].key = tasks[i].key
                    /\ tasks[i].key # last'.id => tasks'[i] = tasks[i]
              /\ DOMAIN old \subseteq DOMAIN new
              /\ DOMAIN new \subseteq DOMAIN old \cup free
              /\ \A f \in DOMAIN old \ free : new[f] = old[f]]_vars

\* an update with a supplied field has changed one of two stored tasks
C7_Witness ==
    /\ last.op = "update"
    /\ last.code = 200
    /\ last.req = ("status" :> "completed")
    /\ Len(tasks) = 2
    /\ Lookup(tasks, last.id).status = "completed"
    /\ \E e \in Entries(tasks) : e.key # last.id /\ e.task.status = "pending"

\* C8: update and delete of an id that is not stored answer NotFound and
\* leave the store as it was.
C8_NotFoundFrame ==
    [][(Request("update") \/ Request("delete")) /\ last'.id \notin Keys(tasks) =>
          /\ last'.code = 404
          /\ last'.body = NotFound
          /\ tasks' = tasks]_vars

\* an update has missed a store that holds a task
C8_Witness ==
    /\ last.op = "update"
    /\ last.code = 404
    /\ last.id \notin Keys(tasks)
    /\ tasks # <<>>

\* C9: a delete of a stored id returns that task and removes its entry and no
\* other; after it get, update and delete of the id answer NotFound, the
\* listing holds that task once less, and no conflict list names the id.
C9_DeleteFrame ==
    [][Request("delete") /\ last'.id \in Keys(tasks) =>
          /\ last'.code = 200
          /\ last'.body.task = Lookup(tasks, last'.id)
          /\ tasks' = SelectSeq(tasks, LAMBDA e : e.key # last'.id)
          /\ Len(tasks') = Len(tasks) - 1
          /\ get_task(tasks', last'.id).result = NotFound
          /\ delete_task(tasks', last'.id).result = NotFound
          /\ \A u \in UpdateRequests :
                update_task(tasks', last'.id, u, now).result = NotFound
          /\ get_schedule(tasks', <<>>).total_tasks = Len(tasks) - 1
          /\ Occurrences(get_schedule(tasks', <<>>).tasks, last'.body.task)
                = Occurrences(Values(tasks), last'.body.task) - 1
          /\ \A d \in CreateRequests :
                last'.id \notin ListedIds(
                    detect_conflicts(tasks', NewTask("ffffffff", d, now), now).conflicts)]_vars

\* a delete has removed one of two stored tasks
C9_Witness ==
    /\ last.op = "delete"
    /\ last.code = 200
    /\ Len(tasks) = 1
    /\ last.id \notin Keys(tasks)
    /\ last.body.task.id = last.id

\* the stored tasks the specification says a listing with these arguments holds
Matching(store, args) ==
    SelectSeq(Values(store),
              LAMBDA t : /\ "status" \in DOMAIN args => t.status = args.status
                         /\ "priority_min" \in DOMAIN args
                               => t.priority >= args.priority_min)

\* C10: a listing holds exactly the stored tasks with the given status (when
\* given) and a priority of at least priority_min (when given), and
\* total_tasks is their number.
C10_ListFilter ==
    [][Request("list") =>
          /\ last'.code = 200
          /\ \A t \in {Values(tasks)[i] : i \in 1..Len(tasks)} :
                Occurrences(last'.body.tasks, t)
                   = Occurrences(Matching(tasks, last'.args), t)
          /\ Len(last'.body.tasks) = Len(Matching(tasks, last'.args))
          /\ last'.body.total_tasks = Len(last'.body.tasks)]_vars

\* the task list of a listing (GET /tasks or GET /schedule)
IsListing == last.op \in {"list", "schedule"} /\ last.code = 200

\* C11: in every returned task list each task's priority_score is at least
\* the priority_score of the task after it.
C11_SortedByScore ==
    IsListing =>
        \A i \in 1..(Len(last.body.tasks) - 1) :
            last.body.tasks[i].priority_score
                >= last.body.tasks[i + 1].priority_score

\* a listing has put the task stored second, with the higher score, first
C11_Witness ==
    /\ last.op = "list"
    /\ Len(last.body.tasks) = 2
    /\ Len(tasks) = 2
    /\ last.body.tasks[1] = tasks[2].task
    /\ last.body.tasks[1].priority_score > last.body.tasks[2].priority_score

\* a served POST /suggest; last.at is the time of the call
IsSuggest == last.op = "suggest"

\* the deadline a suggestion works with, as ISO text
DeadlineText(data, at) ==
    Get(data, "deadline", isoformat(PlusMinutes(Now(at), 7 * Day)))

PlacedAt(data, t) ==
    [scheduled_time |-> Naive(t),
     estimated_duration |-> Get(data, "estimated_duration", 60)]

\* the hour steps from the time of the call, a week and one step long
HourSteps(at) == {at + Hour * k : k \in 0..(7 * 24 + 1)}

Least(S) == CHOOSE t \in S : \A u \in S : t <= u

\* the hour steps before the deadline at which the placed task is free
FreeSteps(store, data, at, deadline) ==
    {t \in HourSteps(at) :
        t < deadline /\ ConflictingKeys(store, PlacedAt(data, t)) = {}}

\* the suggestion the specification describes
EarliestFreeSlot(store, data, at) ==
    LET deadline == DeadlineText(data, at).t
        free == FreeSteps(store, data, at, deadline)
    IN  IF free # {}
        THEN [suggested_time |-> Naive(Least(free)), confidence |-> 95,
              reason |-> "No conflicts detected"]
        ELSE [suggested_time |->
                  Naive(Least({t \in HourSteps(at) : t >= deadline})),
              confidence |-> 60,
              reason |-> "Best available slot near deadline"]

\* the store as the specification expects it: every time well formed and naive
StoreWellFormed(store) ==
    \A e \in Entries(store) :
        /\ e.task.scheduled_time.kind = "naive"
        /\ "deadline" \in DOMAIN e.task => e.task.deadline.kind = "naive"

\* C13: a suggestion for a task with a well-formed deadline is the earliest
\* hour step from now before the deadline that is free of conflicts with the
\* stored tasks that are not completed, with confidence 95; when there is
\* none it is the first hour step at or after the deadline, with confidence 60.
C13_EarliestFreeSlot ==
    IsSuggest /\ DeadlineText(last.req, last.at).kind = "naive" =>
        /\ last.code = 200
        /\ last.body = EarliestFreeSlot(tasks, last.req, last.at)

\* C14: a suggestion ends after at most ceil((deadline - now) / 1 hour)
\* conflict checks, and after none when the deadline is not after now.
C14_BoundedChecks ==
    IsSuggest /\ DeadlineText(last.req, last.at).kind = "naive" =>
        LET left == DeadlineText(last.req, last.at).t - last.at
        IN  /\ last.checks <= (IF left <= 0 THEN 0 ELSE (left + Hour - 1) \div Hour)
            /\ left <= 0 => last.checks = 0

\* a suggestion that used every check the bound allows: now is taken, the
\* next hour is the last step before the deadline
C14_Witness ==
    /\ IsSuggest
    /\ last.code = 200
    /\ last.at = 0
    /\ last.req = ("deadline" :> Naive(90))
    /\ last.checks = 2
    /\ last.body.suggested_time = Naive(60)

\* a step that serves a create or an update that succeeds
Scored == \/ Request("create") /\ last'.code = 201
          \/ Request("update") /\ last'.code = 200

\* the task such a step has stored
ScoredTask ==
    Lookup(tasks', IF last'.op = "create" THEN last'.body.task.id ELSE last'.id)

\* 7200 times priority*2 + max(0, 10 - hours_until_deadline/24)
\*                       + min(estimated_duration/120, 2), at minute n
Score7200(task, n) ==
    14400 * task.priority
      + (IF 72000 - 5 * (task.deadline.t - n) > 0
         THEN 72000 - 5 * (task.deadline.t - n) ELSE 0)
      + (IF task.estimated_duration < 240
         THEN 60 * task.estimated_duration ELSE 14400)

Distance(a, b) == IF a >= b THEN a - b ELSE b - a

\* C16 as claimed: after a successful create or update the stored
\* priority_score equals the score formula on the stored fields at the time
\* of the operation.
C16_ScoreExact ==
    [][Scored => 72 * ScoredTask.priority_score = Score7200(ScoredTask, now)]_vars

\* C16 as amended: after a successful create or update the stored
\* priority_score is the score formula on the stored fields at the time of
\* the operation rounded to two decimals (within half a hundredth of it),
\* whatever priority_score the update supplied.
C16_ScoreRounded ==
    [][Scored =>
          Distance(72 * ScoredTask.priority_score, Score7200(ScoredTask, now)) <= 36]_vars

\* an update that supplied a priority_score, an hour after the create, has
\* stored the recomputed 13.54
C16_Witness ==
    /\ last.op = "update"
    /\ last.code = 200
    /\ last.req = ("priority_score" :> 0)
    /\ now = 60
    /\ Lookup(tasks, last.id).deadline = Naive(7 * Day)
    /\ Lookup(tasks, last.id).priority_score = 1354

\* C17: the suggestion a create returns with its conflicts is the one the
\* tasks stored before the create give for the new task's fields: the
\* earliest free hour step from now before the deadline, as a suggestion
\* asked for just before the create would have answered.
C17_SuggestionBeforeInsert ==
    [][Request("create") /\ last'.code = 201
         /\ "suggestion" \in DOMAIN last'.body =>
          /\ last'.body.suggestion
                = EarliestFreeSlot(tasks, last'.body.task, now)
          /\ last'.body.suggestion
                = Suggestion(suggest_optimal_time(tasks, last'.body.task, now))]_vars

\* the supplied fields hold a time that does not parse
Malformed(fields) ==
    \E f \in {"deadline", "scheduled_time"} \cap DOMAIN fields :
        fields[f].kind = "bad"

\* every stored deadline and scheduled_time parses
StoreParses(store) ==
    \A e \in Entries(store) :
        \A f \in {"deadline", "scheduled_time"} \cap DOMAIN e.task :
            e.task[f].kind # "bad"

\* C18: an update that supplies a malformed deadline or scheduled_time is
\* rejected and leaves the store as it was; so every stored deadline and
\* scheduled_time is well formed, and no create or suggestion whose own
\* fields are well formed fails.
C18_MalformedUpdateRejected ==
    [][/\ Request("update") /\ last'.id \in Keys(tasks) /\ Malformed(last'.req) =>
            last'.code \notin {200, 201} /\ tasks' = tasks
       /\ StoreParses(tasks')
       /\ (Request("create") \/ Request("suggest"))
            /\ ~Malformed(last'.req)
            /\ (\A f \in DOMAIN last'.req \cap {"deadline", "scheduled_time"} :
                     last'.req[f].kind = "naive")
            => last'.code # 500]_vars

\* C19: a suggestion and a listing leave the store as it was, and a
\* suggestion leaves the task it was passed as it was.
C19_ReadOnly ==
    [][Request("suggest") \/ Request("list") \/ Request("schedule") =>
          /\ tasks' = tasks
          /\ last'.op = "suggest" => last'.task = last'.req]_vars

\* a suggestion has tried a taken hour and moved on, over a stored task
C19_Witness ==
    /\ IsSuggest
    /\ last.code = 200
    /\ last.checks = 2
    /\ last.body.confidence = 95
    /\ last.req = Empty
    /\ last.task = Empty
    /\ Len(tasks) = 1

StatusNames == {"pending", "in_progress", "completed"}

\* C20: in every listing the three priority counts add up to total_tasks,
\* and under a status filter the count of that status is total_tasks and the
\* counts of the other two statuses are 0.
C20_SummaryOfReturned ==
    IsListing =>
        /\ last.body.summary.high_priority + last.body.summary.medium_priority
             + last.body.summary.low_priority = last.body.total_tasks
        /\ last.op = "list" /\ "status" \in DOMAIN last.args
             /\ last.args.status \in StatusNames =>
               /\ last.body.summary[last.args.status] = last.body.total_tasks
               /\ \A other \in StatusNames \ {last.args.status} :
                     last.body.summary[other] = 0

\* a filtered listing has returned one of two stored tasks
C20_Witness ==
    /\ last.op = "list"
    /\ "status" \in DOMAIN last.args
    /\ last.body.total_tasks = 1
    /\ last.body.summary[last.args.status] = 1
    /\ last.body.summary.high_priority = 1
    /\ Len(tasks) = 2

\* thread t has finished a create
Finished(t) == last[t].pc = "done"

\* C15: two creates with overlapping intervals served by two threads come
\* out as if one had run after the other: neither fails, both tasks are
\* stored, and at least one response lists the other task as a conflict.
C15_CreatesAtomic ==
    \A t, u \in Threads :
        /\ t # u
        /\ Finished(t) /\ Finished(u)
        /\ last[t].id # last[u].id
        /\ IntervalsOverlap(last[t].task, last[u].task)
        => /\ last[t].code = 201
           /\ last[u].code = 201
           /\ {last[t].id, last[u].id} \subseteq Keys(tasks)
           /\ \/ last[u].id \in ListedIds(last[t].body.conflicts)
              \/ last[t].id \in ListedIds(last[u].body.conflicts)

====
